---- MODULE Spec2Model ----
(***************************************************************************)
(* Model of task.go: an in-memory task registry (taskDB.tasks and          *)
(* taskIDCounter, guarded by taskDB's mutex), its four HTTP handlers, and  *)
(* the startup completion pipeline of main (three producers, one           *)
(* unbuffered channel, one consumer that writes into the registry).        *)
(*                                                                         *)
(* Every HTTP request is served by a goroutine of its own (net/http), so   *)
(* handler h serves the h-th request that arrives.  Steps are the source   *)
(* statements between which the Go scheduler may switch goroutines; the    *)
(* labels carry the source line of the next statement to run.              *)
(***************************************************************************)
EXTENDS Integers, Sequences, FiniteSets, TLC

(* ------------------------------ bounds --------------------------------- *)

\* number of HTTP requests that arrive in one behaviour of Spec
MaxReqs == 2

\* time.Now() returns StartupTime when main builds its slice, and a later
\* instant, up to MaxTime, in a handler
MaxTime == 3

(* ------------------------------ values --------------------------------- *)

\* the zero value of time.Time (an absent created_at decodes to it)
ZeroTime == 0

\* the zero value of Task (var newTask Task)
NoTask == [ID |-> 0, Title |-> "", Completed |-> FALSE, CreatedAt |-> ZeroTime]

\* the instant main starts at, the first after ZeroTime
StartupTime == ZeroTime + 1

\* what time.Now() may return once the server is serving
NowValues == (StartupTime + 1)..MaxTime

\* the slice of main
BatchTasks ==
    << [ID |-> 1, Title |-> "Task 1", Completed |-> FALSE, CreatedAt |-> StartupTime],
       [ID |-> 2, Title |-> "Task 2", Completed |-> FALSE, CreatedAt |-> StartupTime],
       [ID |-> 3, Title |-> "Task 3", Completed |-> FALSE, CreatedAt |-> StartupTime] >>

Producers == 1..Len(BatchTasks)

StatusOK == 200
StatusCreated == 201
StatusNoContent == 204
StatusBadRequest == 400
StatusNotFound == 404

\* make(map[int]Task)
EmptyMap == [i \in {} |-> NoTask]

\* m[k] = v
MapPut(m, k, v) == [i \in DOMAIN m \cup {k} |-> IF i = k THEN v ELSE m[i]]

\* delete(m, k)
MapDelete(m, k) == [i \in DOMAIN m \ {k} |-> m[i]]

(* --------------------------- request inputs ---------------------------- *)

\* A JSON body: each field is absent (<<>>) or present (<<v>>); ok = FALSE is
\* a body that is not JSON.
Opt(f, zero) == IF f = <<>> THEN zero ELSE f[1]

MalformedBody ==
    [ok |-> FALSE, id |-> <<>>, title |-> <<>>, completed |-> <<>>, created_at |-> <<>>]

\* the bodies that arrive: every field occurs absent and present, the ids
\* name no task (absent), the first and the second task
Bodies ==
    { [ok |-> TRUE, id |-> <<>>, title |-> <<"A">>, completed |-> <<>>,
       created_at |-> <<>>],
      [ok |-> TRUE, id |-> <<1>>, title |-> <<"B">>, completed |-> <<TRUE>>,
       created_at |-> <<>>],
      [ok |-> TRUE, id |-> <<2>>, title |-> <<>>, completed |-> <<>>,
       created_at |-> <<StartupTime>>],
      MalformedBody }

\* json.NewDecoder(r.Body).Decode(&t) into a zero Task: absent fields keep
\* their zero value; err is non-nil for a body that is not JSON
Decode(body) ==
    [ err |-> ~body.ok,
      task |-> [ ID |-> Opt(body.id, 0),
                 Title |-> Opt(body.title, ""),
                 Completed |-> Opt(body.completed, FALSE),
                 CreatedAt |-> Opt(body.created_at, ZeroTime) ] ]

\* the values of the id query parameter ("" when it is missing)
QueryIds == {"", "1", "x"}

\* fmt.Sscanf(str, "%d") called WITHOUT operands (nOperands = 0): the verb %d
\* finds no operand to store into, so the scan stops with "too few operands
\* for format '%d'" and n = 0 items were stored, whatever str holds.  With an
\* operand n is the NUMBER of items stored (1 for a decimal string), not the
\* value parsed.
IsDecimal(str) == str \in {"1", "2"}

SscanfN(str, nOperands) ==
    IF nOperands = 0
      THEN [n |-> 0, err |-> TRUE]
      ELSE IF IsDecimal(str) THEN [n |-> 1, err |-> FALSE]
                             ELSE [n |-> 0, err |-> TRUE]

\* the call at line 107
Sscanf(str) == SscanfN(str, 0)

EmptyBody ==
    [ok |-> TRUE, id |-> <<>>, title |-> <<>>, completed |-> <<>>, created_at |-> <<>>]

Requests ==
       {[op |-> "list", body |-> EmptyBody, taskID |-> ""]}
  \cup {[op |-> "create", body |-> b, taskID |-> ""] : b \in Bodies}
  \cup {[op |-> "update", body |-> b, taskID |-> ""] : b \in Bodies}
  \cup {[op |-> "delete", body |-> EmptyBody, taskID |-> q] : q \in QueryIds}

(* ------------------------------- state --------------------------------- *)

VARIABLES
    tasks,          \* taskDB.tasks
    taskIDCounter,  \* taskIDCounter
    locked,         \* taskDB.Mutex is held
    pre,            \* history: tasks and counter when the lock was last taken
    nreq,           \* number of requests that have arrived
    hpc,            \* handler goroutine h: the statement it runs next
    loc,            \* handler goroutine h: its local variables
    resp,           \* handler goroutine h: the response written so far
    createdIds,     \* history: the ids create has returned, in order
    spawned,        \* processTasksConcurrently: loop position
    ppc,            \* producer goroutine p: the statement it runs next
    ptask,          \* producer goroutine p: its copy of the task
    cpc,            \* consumer goroutine: the statement it runs next
    ctask,          \* consumer goroutine: the task it received
    applied         \* history: how often the consumer wrote the task of each id

registryVars == <<tasks, taskIDCounter>>
handlerVars == <<nreq, hpc, loc, resp, createdIds>>
pipelineVars == <<spawned, ppc, ptask, cpc, ctask, applied>>
vars == <<tasks, taskIDCounter, locked, pre, nreq, hpc, loc, resp,
          createdIds, spawned, ppc, ptask, cpc, ctask, applied>>

NoPre == [tasks |-> EmptyMap, counter |-> 0]
NoLoc == [op |-> "none", body |-> EmptyBody, task |-> NoTask, found |-> NoTask,
          taskID |-> ""]
NoResp == [status |-> 0, task |-> NoTask, list |-> {}, msg |-> ""]

InitWith(n) ==
    /\ tasks = EmptyMap
    /\ taskIDCounter = 1
    /\ locked = FALSE
    /\ pre = NoPre
    /\ nreq = 0
    /\ hpc = [h \in 1..n |-> "new"]
    /\ loc = [h \in 1..n |-> NoLoc]
    /\ resp = [h \in 1..n |-> NoResp]
    /\ createdIds = <<>>
    /\ spawned = 0
    /\ ppc = [p \in Producers |-> "new"]
    /\ ptask = [p \in Producers |-> NoTask]
    /\ cpc = "recv:157"
    /\ ctask = NoTask
    /\ applied = [p \in Producers |-> 0]

Init == InitWith(MaxReqs)

Handlers == DOMAIN hpc

(* ------------------------------ the lock ------------------------------- *)

\* taskDB.Lock(): blocks while the mutex is held
LockNoWait ==
    /\ locked' = TRUE
    /\ pre' = [tasks |-> tasks, counter |-> taskIDCounter]

Lock ==
    /\ ~locked
    /\ locked' = TRUE
    /\ pre' = [tasks |-> tasks, counter |-> taskIDCounter]

\* taskDB.Unlock()
Unlock ==
    /\ locked' = FALSE
    /\ pre' = NoPre

(* ------------------------- the HTTP handlers --------------------------- *)

SetPc(h, label) == hpc' = [hpc EXCEPT ![h] = label]

\* http.Error(w, msg, status): the handler returns right after it
ErrorResp(status, msg) == [status |-> status, task |-> NoTask, list |-> {}, msg |-> msg]

\* respondWithJSON(w, status, data)
TaskResp(status, t) == [status |-> status, task |-> t, list |-> {}, msg |-> ""]

ListResp(status, ts) == [status |-> status, task |-> NoTask, list |-> ts, msg |-> ""]

\* The h-th request arrives and its goroutine runs up to the Lock() call:
\* lines 52-56 (create), 71-75 (update), 97-101 (delete).
ArriveIgnoresDecodeError(h, r) ==
    /\ hpc[h] = "new"
    /\ nreq = h - 1
    /\ nreq' = nreq + 1
    /\ CASE r.op = "list" ->
              /\ loc' = [loc EXCEPT ![h] = [NoLoc EXCEPT !.op = "list"]]
              /\ SetPc(h, "list:39")
              /\ UNCHANGED resp
         [] r.op \in {"create", "update"} ->
              LET d == Decode(r.body) IN
              IF FALSE
                THEN /\ loc' = [loc EXCEPT ![h] = [NoLoc EXCEPT !.op = r.op, !.body = r.body]]
                     /\ resp' = [resp EXCEPT ![h] = ErrorResp(StatusBadRequest, "decode")]
                     /\ SetPc(h, "done")
                ELSE /\ loc' = [loc EXCEPT ![h] = [NoLoc EXCEPT !.op = r.op, !.body = r.body,
                                                               !.task = d.task]]
                     /\ SetPc(h, IF r.op = "create" THEN "create:58" ELSE "update:77")
                     /\ UNCHANGED resp
         [] r.op = "delete" ->
              /\ loc' = [loc EXCEPT ![h] = [NoLoc EXCEPT !.op = "delete", !.taskID = r.taskID]]
              /\ IF r.taskID = ""
                   THEN /\ resp' = [resp EXCEPT ![h] =
                                       ErrorResp(StatusBadRequest, "ID is required")]
                        /\ SetPc(h, "done")
                   ELSE /\ SetPc(h, "delete:103")
                        /\ UNCHANGED resp
    /\ UNCHANGED <<tasks, taskIDCounter, locked, pre, createdIds, pipelineVars>>

Arrive(h, r) ==
    /\ hpc[h] = "new"
    /\ nreq = h - 1
    /\ nreq' = nreq + 1
    /\ CASE r.op = "list" ->
              /\ loc' = [loc EXCEPT ![h] = [NoLoc EXCEPT !.op = "list"]]
              /\ SetPc(h, "list:39")
              /\ UNCHANGED resp
         [] r.op \in {"create", "update"} ->
              LET d == Decode(r.body) IN
              IF d.err
                THEN /\ loc' = [loc EXCEPT ![h] = [NoLoc EXCEPT !.op = r.op, !.body = r.body]]
                     /\ resp' = [resp EXCEPT ![h] = ErrorResp(StatusBadRequest, "decode")]
                     /\ SetPc(h, "done")
                ELSE /\ loc' = [loc EXCEPT ![h] = [NoLoc EXCEPT !.op = r.op, !.body = r.body,
                                                               !.task = d.task]]
                     /\ SetPc(h, IF r.op = "create" THEN "create:58" ELSE "update:77")
                     /\ UNCHANGED resp
         [] r.op = "delete" ->
              /\ loc' = [loc EXCEPT ![h] = [NoLoc EXCEPT !.op = "delete", !.taskID = r.taskID]]
              /\ IF r.taskID = ""
                   THEN /\ resp' = [resp EXCEPT ![h] =
                                       ErrorResp(StatusBadRequest, "ID is required")]
                        /\ SetPc(h, "done")
                   ELSE /\ SetPc(h, "delete:103")
                        /\ UNCHANGED resp
    /\ UNCHANGED <<tasks, taskIDCounter, locked, pre, createdIds, pipelineVars>>

\* any request may arrive
Request(h) == nreq < MaxReqs /\ \E r \in Requests : Arrive(h, r)

LockLabels == {"list:39", "create:58", "update:77", "delete:103"}

AfterLock(label) ==
    CASE label = "list:39" -> "list:42"
      [] label = "create:58" -> "create:61"
      [] label = "update:77" -> "update:81"
      [] label = "delete:103" -> "delete:107"

\* taskDB.Lock() at lines 39, 58, 77, 103 (the deferred Unlock is HandlerUnlock)
HandlerLock(h) ==
    /\ hpc[h] \in LockLabels
    /\ Lock
    /\ SetPc(h, AfterLock(hpc[h]))
    /\ UNCHANGED <<tasks, taskIDCounter, nreq, loc, resp, createdIds, pipelineVars>>

\* getTasksHandler, lines 42-47: copy every task of the map (in the map's
\* unspecified order: the result is modelled as the set of the copies)
GetTasksBody(h) ==
    /\ hpc[h] = "list:42"
    /\ resp' = [resp EXCEPT ![h] = ListResp(StatusOK, {tasks[i] : i \in DOMAIN tasks})]
    /\ SetPc(h, "unlock")
    /\ UNCHANGED <<tasks, taskIDCounter, locked, pre, nreq, loc, createdIds,
                   pipelineVars>>

\* createTaskHandler, lines 61-62
Create61KeepsBodyId(h) ==
    /\ hpc[h] = "create:61"
    /\ \E t \in NowValues :
          loc' = [loc EXCEPT ![h].task = [@ EXCEPT !.CreatedAt = t]]
    /\ SetPc(h, "create:63")
    /\ UNCHANGED <<tasks, taskIDCounter, locked, pre, nreq, resp, createdIds,
                   pipelineVars>>

Create61KeepsBodyTime(h) ==
    /\ hpc[h] = "create:61"
    /\ loc' = [loc EXCEPT ![h].task = [@ EXCEPT !.ID = taskIDCounter]]
    /\ SetPc(h, "create:63")
    /\ UNCHANGED <<tasks, taskIDCounter, locked, pre, nreq, resp, createdIds,
                   pipelineVars>>

Create61(h) ==
    /\ hpc[h] = "create:61"
    /\ \E t \in NowValues :
          loc' = [loc EXCEPT ![h].task = [@ EXCEPT !.ID = taskIDCounter, !.CreatedAt = t]]
    /\ SetPc(h, "create:63")
    /\ UNCHANGED <<tasks, taskIDCounter, locked, pre, nreq, resp, createdIds,
                   pipelineVars>>

\* line 63
Create63(h) ==
    /\ hpc[h] = "create:63"
    /\ tasks' = MapPut(tasks, taskIDCounter, loc[h].task)
    /\ SetPc(h, "create:64")
    /\ UNCHANGED <<taskIDCounter, locked, pre, nreq, loc, resp, createdIds,
                   pipelineVars>>

\* line 64
Create64NoIncrement(h) ==
    /\ hpc[h] = "create:64"
    /\ SetPc(h, "create:66")
    /\ UNCHANGED <<tasks, taskIDCounter, locked, pre, nreq, loc, resp, createdIds,
                   pipelineVars>>

Create64(h) ==
    /\ hpc[h] = "create:64"
    /\ taskIDCounter' = taskIDCounter + 1
    /\ SetPc(h, "create:66")
    /\ UNCHANGED <<tasks, locked, pre, nreq, loc, resp, createdIds, pipelineVars>>

\* line 66
Create66(h) ==
    /\ hpc[h] = "create:66"
    /\ resp' = [resp EXCEPT ![h] = TaskResp(StatusCreated, loc[h].task)]
    /\ createdIds' = Append(createdIds, loc[h].task.ID)
    /\ SetPc(h, "unlock")
    /\ UNCHANGED <<tasks, taskIDCounter, locked, pre, nreq, loc, pipelineVars>>

\* updateTaskHandler, lines 81-85
Update81KeepsLockOn404(h) ==
    /\ hpc[h] = "update:81"
    /\ IF loc[h].task.ID \in DOMAIN tasks
         THEN /\ loc' = [loc EXCEPT ![h].found = tasks[loc[h].task.ID]]
              /\ SetPc(h, "update:88")
              /\ UNCHANGED resp
         ELSE /\ resp' = [resp EXCEPT ![h] = ErrorResp(StatusNotFound, "Task not found")]
              /\ SetPc(h, "done")
              /\ UNCHANGED loc
    /\ UNCHANGED <<tasks, taskIDCounter, locked, pre, nreq, createdIds, pipelineVars>>

Update81Upsert(h) ==
    /\ hpc[h] = "update:81"
    /\ loc' = [loc EXCEPT ![h].found =
                 IF loc[h].task.ID \in DOMAIN tasks THEN tasks[loc[h].task.ID] ELSE NoTask]
    /\ SetPc(h, "update:88")
    /\ UNCHANGED <<tasks, taskIDCounter, locked, pre, nreq, resp, createdIds,
                   pipelineVars>>

Update81(h) ==
    /\ hpc[h] = "update:81"
    /\ IF loc[h].task.ID \in DOMAIN tasks
         THEN /\ loc' = [loc EXCEPT ![h].found = tasks[loc[h].task.ID]]
              /\ SetPc(h, "update:88")
              /\ UNCHANGED resp
         ELSE /\ resp' = [resp EXCEPT ![h] = ErrorResp(StatusNotFound, "Task not found")]
              /\ SetPc(h, "unlock")
              /\ UNCHANGED loc
    /\ UNCHANGED <<tasks, taskIDCounter, locked, pre, nreq, createdIds, pipelineVars>>

\* lines 88-90
Update88WholeRecord(h) ==
    /\ hpc[h] = "update:88"
    /\ loc' = [loc EXCEPT ![h].found = loc[h].task]
    /\ tasks' = MapPut(tasks, loc[h].task.ID, loc[h].task)
    /\ SetPc(h, "update:92")
    /\ UNCHANGED <<taskIDCounter, locked, pre, nreq, resp, createdIds, pipelineVars>>

Update88(h) ==
    /\ hpc[h] = "update:88"
    /\ LET t == [loc[h].found EXCEPT !.Title = loc[h].task.Title,
                                     !.Completed = loc[h].task.Completed]
       IN /\ loc' = [loc EXCEPT ![h].found = t]
          /\ tasks' = MapPut(tasks, loc[h].task.ID, t)
    /\ SetPc(h, "update:92")
    /\ UNCHANGED <<taskIDCounter, locked, pre, nreq, resp, createdIds, pipelineVars>>

\* line 92
Update92(h) ==
    /\ hpc[h] = "update:92"
    /\ resp' = [resp EXCEPT ![h] = TaskResp(StatusOK, loc[h].found)]
    /\ SetPc(h, "unlock")
    /\ UNCHANGED <<tasks, taskIDCounter, locked, pre, nreq, loc, createdIds,
                   pipelineVars>>

\* deleteTaskHandler, lines 107-122: id is the first result of Sscanf, the
\* number of items it stored
DeleteBody(h) ==
    /\ hpc[h] = "delete:107"
    /\ LET r == Sscanf(loc[h].taskID)
           id == r.n
       IN IF r.err
            THEN /\ resp' = [resp EXCEPT ![h] =
                                ErrorResp(StatusBadRequest, "Invalid task ID")]
                 /\ UNCHANGED tasks
            ELSE IF id \notin DOMAIN tasks
                   THEN /\ resp' = [resp EXCEPT ![h] =
                                       ErrorResp(StatusNotFound, "Task not found")]
                        /\ UNCHANGED tasks
                   ELSE /\ tasks' = MapDelete(tasks, id)
                        /\ resp' = [resp EXCEPT ![h] = ErrorResp(StatusNoContent, "")]
    /\ SetPc(h, "unlock")
    /\ UNCHANGED <<taskIDCounter, locked, pre, nreq, loc, createdIds, pipelineVars>>

\* the handler returns after Lock(): the deferred taskDB.Unlock() runs and the
\* goroutine ends
HandlerUnlock(h) ==
    /\ hpc[h] = "unlock"
    /\ Unlock
    /\ SetPc(h, "exit")
    /\ loc' = [loc EXCEPT ![h] = NoLoc]
    /\ resp' = [resp EXCEPT ![h] = NoResp]
    /\ UNCHANGED <<tasks, taskIDCounter, nreq, createdIds, pipelineVars>>

\* the handler returns before Lock() (a 400): the goroutine ends
Finish(h) ==
    /\ hpc[h] = "done"
    /\ SetPc(h, "exit")
    /\ loc' = [loc EXCEPT ![h] = NoLoc]
    /\ resp' = [resp EXCEPT ![h] = NoResp]
    /\ UNCHANGED <<tasks, taskIDCounter, locked, pre, nreq, createdIds, pipelineVars>>

(* ----------------------- the completion pipeline ----------------------- *)

\* processTasksConcurrently, lines 127-134: one goroutine per task, each with
\* its own copy of the task
Spawn ==
    /\ spawned < Len(BatchTasks)
    /\ spawned' = spawned + 1
    /\ ppc' = [ppc EXCEPT ![spawned + 1] = "sleep:130"]
    /\ ptask' = [ptask EXCEPT ![spawned + 1] = BatchTasks[spawned + 1]]
    /\ UNCHANGED <<tasks, taskIDCounter, locked, pre, handlerVars, cpc, ctask, applied>>

\* lines 130-132 and 157: the sleep ends, the producer marks its copy
\* completed and sends it.  ch is unbuffered, so the send and the consumer's
\* receive happen together; the steps before the send touch only the
\* producer's own copy.
SendRecvKeepsFlag(p) ==
    /\ ppc[p] = "sleep:130"
    /\ cpc = "recv:157"
    /\ ctask' = ptask[p]
    /\ ppc' = [ppc EXCEPT ![p] = "done"]
    /\ cpc' = "apply:158"
    /\ UNCHANGED <<tasks, taskIDCounter, locked, pre, handlerVars, spawned, ptask, applied>>

SendRecv(p) ==
    /\ ppc[p] = "sleep:130"
    /\ cpc = "recv:157"
    /\ LET task == [ptask[p] EXCEPT !.Completed = TRUE]
       IN /\ ptask' = [ptask EXCEPT ![p] = task]
          /\ ctask' = task
    /\ ppc' = [ppc EXCEPT ![p] = "done"]
    /\ cpc' = "apply:158"
    /\ UNCHANGED <<tasks, taskIDCounter, locked, pre, handlerVars, spawned, applied>>

\* line 158
ConsumerLock ==
    /\ cpc = "apply:158"
    /\ Lock
    /\ cpc' = "apply:159"
    /\ UNCHANGED <<tasks, taskIDCounter, handlerVars, spawned, ppc, ptask, ctask, applied>>

\* line 159
ConsumerWriteBumpsCounter ==
    /\ cpc = "apply:159"
    /\ tasks' = MapPut(tasks, ctask.ID, ctask)
    /\ taskIDCounter' = IF ctask.ID >= taskIDCounter THEN ctask.ID + 1 ELSE taskIDCounter
    /\ applied' = [applied EXCEPT ![ctask.ID] = @ + 1]
    /\ cpc' = "apply:160"
    /\ UNCHANGED <<locked, pre, handlerVars, spawned, ppc, ptask, ctask>>

ConsumerWriteIfPresent ==
    /\ cpc = "apply:159"
    /\ tasks' = IF ctask.ID \in DOMAIN tasks THEN MapPut(tasks, ctask.ID, ctask) ELSE tasks
    /\ applied' = [applied EXCEPT ![ctask.ID] = @ + 1]
    /\ cpc' = "apply:160"
    /\ UNCHANGED <<taskIDCounter, locked, pre, handlerVars, spawned, ppc, ptask, ctask>>

ConsumerWrite ==
    /\ cpc = "apply:159"
    /\ tasks' = MapPut(tasks, ctask.ID, ctask)
    /\ applied' = [applied EXCEPT ![ctask.ID] = @ + 1]
    /\ cpc' = "apply:160"
    /\ UNCHANGED <<taskIDCounter, locked, pre, handlerVars, spawned, ppc, ptask, ctask>>

\* lines 160-161: unlock, log, and back to the receive
ConsumerUnlockKeepsLock ==
    /\ cpc = "apply:160"
    /\ cpc' = "recv:157"
    /\ ctask' = NoTask
    /\ UNCHANGED <<tasks, taskIDCounter, locked, pre, handlerVars, spawned, ppc, ptask,
                   applied>>

ConsumerUnlock ==
    /\ cpc = "apply:160"
    /\ Unlock
    /\ cpc' = "recv:157"
    /\ ctask' = NoTask
    /\ UNCHANGED <<tasks, taskIDCounter, handlerVars, spawned, ppc, ptask, applied>>

Pipeline ==
    \/ Spawn
    \/ \E p \in Producers : SendRecv(p)
    \/ ConsumerLock
    \/ ConsumerWrite
    \/ ConsumerUnlock

(* --------------------------- specifications ---------------------------- *)

\* the server under any MaxReqs requests
Next ==
    \/ \E h \in Handlers : Request(h)
    \/ \E h \in Handlers : HandlerLock(h)
    \/ \E h \in Handlers : GetTasksBody(h)
    \/ \E h \in Handlers : Create61(h)
    \/ \E h \in Handlers : Create63(h)
    \/ \E h \in Handlers : Create64(h)
    \/ \E h \in Handlers : Create66(h)
    \/ \E h \in Handlers : Update81(h)
    \/ \E h \in Handlers : Update88(h)
    \/ \E h \in Handlers : Update92(h)
    \/ \E h \in Handlers : DeleteBody(h)
    \/ \E h \in Handlers : HandlerUnlock(h)
    \/ \E h \in Handlers : Finish(h)
    \/ Pipeline

Spec == Init /\ [][Next]_vars

\* The scheduling the Go runtime gives: a goroutine that can run does run, a
\* goroutine blocked in Lock() or in a channel send is woken once the mutex
\* is free or the receiver waits.  No request is ever bound to arrive.
HandlerProgress(h) ==
    \/ HandlerLock(h)
    \/ GetTasksBody(h)
    \/ Create61(h) \/ Create63(h) \/ Create64(h) \/ Create66(h)
    \/ Update81(h) \/ Update88(h) \/ Update92(h)
    \/ DeleteBody(h)
    \/ HandlerUnlock(h)
    \/ Finish(h)

Progress == Pipeline \/ \E h \in Handlers : HandlerProgress(h)

Fairness == WF_vars(Progress)

\* the server under fair scheduling, its clients sending one request of each
\* kind: a list, a create, an update of id 1, a delete of id 1 and a delete
\* without id
FairRequests ==
    { r \in Requests :
        \/ r.op \in {"list", "delete"}
        \/ r.op = "create" /\ r.body.ok /\ r.body.id = <<>>
        \/ r.op = "update" /\ r.body.id = <<1>> }

RequestFair(h) == nreq < MaxReqs /\ \E r \in FairRequests : Arrive(h, r)

NextFair ==
    \/ \E h \in Handlers : RequestFair(h)
    \/ \E h \in Handlers : HandlerProgress(h)
    \/ Pipeline

SpecFair == Init /\ [][NextFair]_vars /\ Fairness

\* the server when its clients call only list and create, with bodies that
\* decode
CreateListRequests ==
    {r \in Requests : r.op = "list" \/ (r.op = "create" /\ r.body.ok)}

RequestCreateList(h) == nreq < MaxReqs /\ \E r \in CreateListRequests : Arrive(h, r)

NextCreateList ==
    \/ \E h \in Handlers : RequestCreateList(h)
    \/ \E h \in Handlers : HandlerLock(h)
    \/ \E h \in Handlers : GetTasksBody(h)
    \/ \E h \in Handlers : Create61(h)
    \/ \E h \in Handlers : Create63(h)
    \/ \E h \in Handlers : Create64(h)
    \/ \E h \in Handlers : Create66(h)
    \/ \E h \in Handlers : HandlerUnlock(h)
    \/ Pipeline

SpecCreateList == Init /\ [][NextCreateList]_vars

\* the server under one client that sends the requests of the concrete
\* scenario one after the other, each when the response to the one before
\* it has been written
JsonBody(id, title, completed) ==
    [ok |-> TRUE, id |-> id, title |-> title, completed |-> completed, created_at |-> <<>>]

Script ==
    << [op |-> "create", body |-> JsonBody(<<>>, <<"A">>, <<FALSE>>), taskID |-> ""],
       [op |-> "create", body |-> JsonBody(<<>>, <<"B">>, <<>>), taskID |-> ""],
       [op |-> "update", body |-> JsonBody(<<1>>, <<"A2">>, <<TRUE>>), taskID |-> ""],
       [op |-> "delete", body |-> EmptyBody, taskID |-> "2"],
       [op |-> "list", body |-> EmptyBody, taskID |-> ""],
       [op |-> "update", body |-> JsonBody(<<2>>, <<"B2">>, <<TRUE>>), taskID |-> ""],
       [op |-> "delete", body |-> EmptyBody, taskID |-> "2"] >>

InitScenario == InitWith(Len(Script))

RequestScript(h) ==
    /\ IF h = 1 THEN TRUE ELSE hpc[h - 1] = "exit"
    /\ Arrive(h, Script[h])

NextScenario ==
    \/ \E h \in Handlers : RequestScript(h)
    \/ \E h \in Handlers : HandlerLock(h)
    \/ \E h \in Handlers : GetTasksBody(h)
    \/ \E h \in Handlers : Create61(h)
    \/ \E h \in Handlers : Create63(h)
    \/ \E h \in Handlers : Create64(h)
    \/ \E h \in Handlers : Create66(h)
    \/ \E h \in Handlers : Update81(h)
    \/ \E h \in Handlers : Update88(h)
    \/ \E h \in Handlers : Update92(h)
    \/ \E h \in Handlers : DeleteBody(h)
    \/ \E h \in Handlers : HandlerUnlock(h)
    \/ Pipeline

SpecScenario == InitScenario /\ [][NextScenario]_vars

TypeOK ==
    /\ DOMAIN tasks \subseteq 1..(Cardinality(Handlers) + Len(BatchTasks))
    /\ \A i \in DOMAIN tasks : tasks[i].ID \in Nat /\ tasks[i].Completed \in BOOLEAN
    /\ taskIDCounter \in 1..(Cardinality(Handlers) + 1)
    /\ locked \in BOOLEAN
    /\ nreq \in 0..Cardinality(Handlers)
    /\ spawned \in 0..Len(BatchTasks)

(* ------------------------- notions of the claims ----------------------- *)

\* the labels at which a handler holds the lock
HandlerCS ==
    {"list:42", "create:61", "create:63", "create:64", "create:66",
     "update:81", "update:88", "update:92", "delete:107", "unlock"}

\* the labels at which the consumer holds the lock
ConsumerCS == {"apply:159", "apply:160"}

\* handler h has written its response and still holds the lock
Responded(h, op) == hpc[h] = "unlock" /\ loc[h].op = op

\* the integer a decimal id parameter names
QueryInt(str) == CASE str = "1" -> 1 [] str = "2" -> 2 [] OTHER -> 0

Range(seq) == {seq[i] : i \in 1..Len(seq)}

IdsOf(ts) == {t.ID : t \in ts}

(* -------------------------------- claims ------------------------------- *)

\* C1: the ids returned by successive create calls are strictly increasing,
\* hence pairwise distinct and never returned twice, under every interleaving
\* of the handlers and the pipeline.
C1_CreateIdsStrictlyIncreasing ==
    \A i, j \in 1..Len(createdIds) : i < j => createdIds[i] < createdIds[j]

\* two creates have returned and the pipeline has applied a completion
C1_Witness ==
    /\ Len(createdIds) >= 2
    /\ \E i \in DOMAIN tasks : tasks[i].Title = BatchTasks[i].Title

\* C2: when N >= 2 create calls have run (possibly concurrently) and all have
\* finished, they returned N distinct ids and exactly N entries are present.
C2_ConcurrentCreatesAllPresent ==
    (/\ \A h \in Handlers : hpc[h] \in {"new", "exit"}
     /\ Len(createdIds) >= 2)
    => /\ Cardinality(Range(createdIds)) = Len(createdIds)
       /\ Cardinality(DOMAIN tasks) = Len(createdIds)

\* C3: after N creates and no delete, list returns exactly N records, whose
\* ids are the ids the creates returned.
C3_ListAfterCreates ==
    \A h \in Handlers :
        Responded(h, "list")
        => /\ Cardinality(resp[h].list) = Len(createdIds)
           /\ IdsOf(resp[h].list) = Range(createdIds)

\* C4: delete with the id of a record that is present answers 204 and removes
\* the record.
C4_DeletePresentRemoves ==
    \A h \in Handlers :
        (/\ Responded(h, "delete")
         /\ IsDecimal(loc[h].taskID)
         /\ QueryInt(loc[h].taskID) \in DOMAIN pre.tasks)
        => /\ resp[h].status = StatusNoContent
           /\ QueryInt(loc[h].taskID) \notin DOMAIN tasks

\* C5: delete with an integer id that is not present answers 404 and leaves
\* the registry unchanged.
C5_DeleteAbsentNotFound ==
    \A h \in Handlers :
        (/\ Responded(h, "delete")
         /\ IsDecimal(loc[h].taskID)
         /\ QueryInt(loc[h].taskID) \notin DOMAIN pre.tasks)
        => /\ resp[h].status = StatusNotFound
           /\ tasks = pre.tasks
           /\ taskIDCounter = pre.counter

\* C6: update with an id that is not present answers 404 and changes neither
\* the map nor the counter.
C6_UpdateAbsentNotFound ==
    \A h \in Handlers :
        (Responded(h, "update") /\ loc[h].task.ID \notin DOMAIN pre.tasks)
        => /\ resp[h].status = StatusNotFound
           /\ tasks = pre.tasks
           /\ taskIDCounter = pre.counter

\* an update of an absent id has answered while the registry holds tasks
C6_Witness ==
    \E h \in Handlers :
        /\ Responded(h, "update")
        /\ loc[h].task.ID \notin DOMAIN pre.tasks
        /\ DOMAIN pre.tasks # {}

\* C7: update with an id that is present overwrites the title and completed
\* of that record with the caller's values and answers 200 with the updated
\* record; its id and created_at, the other records and the counter stay.
C7_UpdatePresentOverwrites ==
    \A h \in Handlers :
        (Responded(h, "update") /\ loc[h].task.ID \in DOMAIN pre.tasks)
        => LET id == loc[h].task.ID
               old == pre.tasks[id]
               new == [ID |-> old.ID,
                       Title |-> Opt(loc[h].body.title, ""),
                       Completed |-> Opt(loc[h].body.completed, FALSE),
                       CreatedAt |-> old.CreatedAt]
           IN /\ resp[h].status = StatusOK
              /\ resp[h].task = new
              /\ tasks = [pre.tasks EXCEPT ![id] = new]
              /\ taskIDCounter = pre.counter

\* an update of a present id has answered; the caller sent a created_at other
\* than the record's, changed the title and the completed flag, and another
\* record is present
C7_Witness ==
    \E h \in Handlers :
        /\ Responded(h, "update")
        /\ loc[h].task.ID \in DOMAIN pre.tasks
        /\ loc[h].task.CreatedAt # pre.tasks[loc[h].task.ID].CreatedAt
        /\ loc[h].task.Title # pre.tasks[loc[h].task.ID].Title
        /\ loc[h].task.Completed # pre.tasks[loc[h].task.ID].Completed
        /\ Cardinality(DOMAIN tasks) >= 2

\* C8: a create whose body decodes answers 201; its id is the counter's value
\* at the call and the counter is then one more; id and created_at of the
\* body are ignored (created_at is the server's time); the record returned is
\* the one stored under the id, with the caller's title and completed.
C8_CreateAssignsCounter ==
    \A h \in Handlers :
        Responded(h, "create")
        => /\ resp[h].status = StatusCreated
           /\ resp[h].task = [ID |-> pre.counter,
                              Title |-> Opt(loc[h].body.title, ""),
                              Completed |-> Opt(loc[h].body.completed, FALSE),
                              CreatedAt |-> resp[h].task.CreatedAt]
           /\ resp[h].task.CreatedAt \in NowValues
           /\ taskIDCounter = pre.counter + 1
           /\ tasks = MapPut(pre.tasks, pre.counter, resp[h].task)

\* a create has answered whose body carried an id other than the one assigned
\* and a created_at
C8_Witness ==
    \E h \in Handlers :
        /\ Responded(h, "create")
        /\ loc[h].body.id # <<>>
        /\ loc[h].body.id # <<resp[h].task.ID>>
        /\ loc[h].body.created_at # <<>>

\* C9: the concrete scenario answers: create A -> 201 {1, A, false}; create B
\* -> 201 id 2; update 1 -> 200 {1, A2, true}; delete 2 -> 204; list -> only
\* id 1; update 2 -> 404; delete 2 -> 404.
ScenarioExpected(h, r) ==
    CASE h = 1 -> /\ r.status = StatusCreated
                  /\ r.task.ID = 1 /\ r.task.Title = "A" /\ r.task.Completed = FALSE
      [] h = 2 -> r.status = StatusCreated /\ r.task.ID = 2
      [] h = 3 -> /\ r.status = StatusOK
                  /\ r.task.ID = 1 /\ r.task.Title = "A2" /\ r.task.Completed = TRUE
      [] h = 4 -> r.status = StatusNoContent
      [] h = 5 -> r.status = StatusOK /\ IdsOf(r.list) = {1}
      [] h = 6 -> r.status = StatusNotFound
      [] h = 7 -> r.status = StatusNotFound

C9_ScenarioResponses ==
    \A h \in Handlers :
        hpc[h] \in {"unlock", "done"} => ScenarioExpected(h, resp[h])

\* C10: the operations are atomic with respect to each other: at most one of
\* the handlers and the consumer is between Lock and Unlock, the mutex is held
\* exactly then, the map and the counter are what the holder's own steps so
\* far made of the values at its Lock, and they change only while the mutex
\* is held.
HoldersInCS ==
    Cardinality({h \in Handlers : hpc[h] \in HandlerCS})
    + (IF cpc \in ConsumerCS THEN 1 ELSE 0)

\* map and counter as the steps h has run since its Lock leave them
SerialEffect(h) ==
    LET l == hpc[h]
        created == MapPut(pre.tasks, pre.counter, loc[h].task)
    IN CASE l \in {"list:42", "create:61", "create:63", "update:81", "update:88",
                   "delete:107"} ->
              [tasks |-> pre.tasks, counter |-> pre.counter]
         [] l = "create:64" -> [tasks |-> created, counter |-> pre.counter]
         [] l = "create:66" -> [tasks |-> created, counter |-> pre.counter + 1]
         [] l = "update:92" ->
              [tasks |-> MapPut(pre.tasks, loc[h].task.ID, loc[h].found),
               counter |-> pre.counter]
         [] l = "unlock" ->
              CASE resp[h].status = StatusCreated ->
                     [tasks |-> created, counter |-> pre.counter + 1]
                [] resp[h].status = StatusOK /\ loc[h].op = "update" ->
                     [tasks |-> MapPut(pre.tasks, loc[h].task.ID, loc[h].found),
                      counter |-> pre.counter]
                [] resp[h].status = StatusNoContent ->
                     [tasks |-> MapDelete(pre.tasks, QueryInt(loc[h].taskID)),
                      counter |-> pre.counter]
                [] OTHER -> [tasks |-> pre.tasks, counter |-> pre.counter]

AtomicInv ==
    /\ HoldersInCS <= 1
    /\ locked <=> HoldersInCS = 1
    /\ \A h \in Handlers :
          hpc[h] \in HandlerCS
          => [tasks |-> tasks, counter |-> taskIDCounter] = SerialEffect(h)
    /\ cpc = "apply:159" => tasks = pre.tasks /\ taskIDCounter = pre.counter
    /\ cpc = "apply:160"
       => tasks = MapPut(pre.tasks, ctask.ID, ctask) /\ taskIDCounter = pre.counter

WritesUnderLock ==
    (tasks' # tasks \/ taskIDCounter' # taskIDCounter) => locked

C10_OperationsAtomic == []AtomicInv /\ [][WritesUnderLock]_vars

\* a create is between its map write and its counter increment while another
\* handler and the consumer wait for the lock
C10_Witness ==
    /\ \E h, g \in Handlers : hpc[h] = "create:64" /\ hpc[g] \in LockLabels
    /\ cpc = "apply:158"

\* C11: a request rejected with 400 changes nothing.  A create or update
\* whose body does not decode, and a delete whose id parameter is missing or
\* is no integer, answer 400; the step that writes a 400 leaves map and
\* counter alone, a body that does not decode never reaches the Lock, and a
\* 400 written under the lock finds map and counter as they were at the Lock.
MustReject(h) ==
    \/ loc[h].op \in {"create", "update"} /\ ~loc[h].body.ok
    \/ loc[h].op = "delete" /\ ~IsDecimal(loc[h].taskID)

RejectedInv ==
    \A h \in Handlers :
        /\ (hpc[h] \in {"done", "unlock"} /\ MustReject(h))
           => resp[h].status = StatusBadRequest
        /\ (hpc[h] \in HandlerCS /\ loc[h].op \in {"create", "update"})
           => loc[h].body.ok
        /\ (hpc[h] = "unlock" /\ resp[h].status = StatusBadRequest)
           => tasks = pre.tasks /\ taskIDCounter = pre.counter

RejectingStepChangesNothing ==
    \A h \in Handlers :
        (resp'[h].status = StatusBadRequest /\ resp[h].status # StatusBadRequest)
        => tasks' = tasks /\ taskIDCounter' = taskIDCounter

C11_BadRequestChangesNothing ==
    []RejectedInv /\ [][RejectingStepChangesNothing]_vars

\* a create whose body does not decode has answered 400 after an earlier
\* create, and the counter still is 2
C11_Witness ==
    \E h \in Handlers :
        /\ hpc[h] = "done"
        /\ loc[h].op = "create"
        /\ resp[h].status = StatusBadRequest
        /\ taskIDCounter = 2
        /\ DOMAIN tasks # {}

\* C12: the pipeline delivers each task of the batch exactly once.  A
\* producer sends one value and ends; what the consumer holds is the batch
\* task with completed = true; no task is written more than once, every task
\* sent is written or about to be; and under fair scheduling every task of
\* the batch ends up written exactly once.
DeliveryInv ==
    /\ cpc # "recv:157"
       => /\ ctask.ID \in Producers
          /\ ctask = [BatchTasks[ctask.ID] EXCEPT !.Completed = TRUE]
    /\ \A p \in Producers :
          /\ applied[p] <= 1
          /\ ppc[p] = "done"
             <=> (applied[p] = 1 \/ (cpc \in {"apply:158", "apply:159"} /\ ctask.ID = p))

AllDelivered == \A p \in Producers : ppc[p] = "done" /\ applied[p] = 1

C12_EachBatchTaskAppliedOnce == []DeliveryInv /\ <>[]AllDelivered

\* every completion has been applied while a create went through the lock
C12_Witness == AllDelivered /\ taskIDCounter > 1

\* C13: a delete racing a completion-apply on the same id resurrects the id.
\* In the race (a delete of id i that found i present has answered, and the
\* consumer holds the completion of i and waits for the lock) the delete has
\* answered 204 and removed the record, which the apply then puts back.
C13_DeleteThenApplyResurrects ==
    \A h \in Handlers :
        (/\ Responded(h, "delete")
         /\ IsDecimal(loc[h].taskID)
         /\ QueryInt(loc[h].taskID) \in DOMAIN pre.tasks
         /\ cpc = "apply:158"
         /\ ctask.ID = QueryInt(loc[h].taskID))
        => /\ resp[h].status = StatusNoContent
           /\ QueryInt(loc[h].taskID) \notin DOMAIN tasks

\* C14: applyCompletion is only called for existing ids: when the consumer
\* is about to write a task, a record with the task's id is present.
C14_ApplyOnlyExistingIds ==
    cpc = "apply:159" => ctask.ID \in DOMAIN tasks

\* C15: applyCompletion is an unconditional upsert: after the write the map
\* holds the received task under its id, whether or not the id was present,
\* and every other record and the counter are as at the Lock.
C15_ApplyCompletionUpserts ==
    cpc = "apply:160"
    => /\ DOMAIN tasks = DOMAIN pre.tasks \cup {ctask.ID}
       /\ tasks[ctask.ID] = ctask
       /\ \A i \in DOMAIN pre.tasks \ {ctask.ID} : tasks[i] = pre.tasks[i]
       /\ taskIDCounter = pre.counter

\* the write replaced a record that a create had stored, next to another
\* record
C15_Witness ==
    /\ cpc = "apply:160"
    /\ ctask.ID \in DOMAIN pre.tasks
    /\ pre.tasks[ctask.ID] # ctask
    /\ Cardinality(DOMAIN tasks) >= 2

\* C16: the lock is released on every exit path: whenever the mutex is held,
\* a handler or the consumer is between its Lock and its Unlock; a handler
\* that has answered and ended, on any path, holds nothing.
C16_LockHeldOnlyInProgress ==
    /\ locked => HoldersInCS >= 1
    /\ (/\ \A h \in Handlers : hpc[h] \in {"new", "done", "exit"} \cup LockLabels
        /\ cpc \in {"recv:157", "apply:158"})
       => ~locked

\* a handler has ended and a later update, on its NotFound path, holds the
\* lock
C16_Witness ==
    \E h, g \in Handlers :
        /\ hpc[h] = "exit"
        /\ Responded(g, "update")
        /\ resp[g].status = StatusNotFound

\* C17: the counter never decreases and only a create that succeeds changes
\* it, by exactly one (the step of line 64): list, update, delete, a rejected
\* create and applyCompletion leave it alone.
CounterStep ==
    taskIDCounter' # taskIDCounter
    => /\ taskIDCounter' = taskIDCounter + 1
       /\ \E h \in Handlers :
             /\ loc[h].op = "create"
             /\ hpc[h] = "create:64"
             /\ hpc'[h] = "create:66"

C17_CounterOnlyCreate == [][CounterStep]_vars

\* the counter was raised once, a completion has been applied, and a request
\* that is no create has answered under the lock
C17_Witness ==
    /\ taskIDCounter = 2
    /\ \E p \in Producers : applied[p] = 1
    /\ \E h \in Handlers : hpc[h] = "unlock" /\ loc[h].op # "create"

\* C18: every id present in the Registry is less than the counter, so the id
\* create assigns is no key of the map when create stores its record.
C18_IdsBelowCounter ==
    /\ \A i \in DOMAIN tasks : i < taskIDCounter
    /\ \A h \in Handlers : hpc[h] = "create:63" => taskIDCounter \notin DOMAIN tasks

\* C19: every entry is stored under its own id.
C19_StoredUnderOwnId ==
    \A k \in DOMAIN tasks : tasks[k].ID = k

\* the map holds a record stored by create and updated since, and a record
\* written by the consumer
C19_Witness ==
    /\ \E k \in DOMAIN tasks : tasks[k].CreatedAt \in NowValues /\ tasks[k].Title = "B"
    /\ \E k \in DOMAIN tasks : tasks[k].Title = BatchTasks[k].Title

\* C20: the pipeline cannot deadlock the Registry.  The consumer holds the
\* lock only from its Lock to its Unlock around the one map write, never
\* while it waits to receive or to lock, and no producer holds it; under fair
\* scheduling every handler that waits for the lock gets it, and in the end
\* nothing is blocked but the consumer, waiting on the empty channel.
PipelineLockInv ==
    /\ (locked /\ \A h \in Handlers : hpc[h] \notin HandlerCS) => cpc \in ConsumerCS
    /\ cpc \in ConsumerCS => (locked /\ \A h \in Handlers : hpc[h] \notin HandlerCS)

OnlyConsumerWaits ==
    /\ cpc = "recv:157"
    /\ ~locked
    /\ spawned = Len(BatchTasks)
    /\ \A p \in Producers : ppc[p] = "done"
    /\ \A h \in 1..MaxReqs : hpc[h] \in {"new", "exit"}

C20_PipelineNeverBlocksHandlers ==
    /\ []PipelineLockInv
    /\ \A h \in 1..MaxReqs : (hpc[h] \in LockLabels) ~> (hpc[h] \in HandlerCS)
    /\ <>[]OnlyConsumerWaits

\* a handler waits for the lock while the consumer holds it for its write
C20_Witness ==
    /\ cpc = "apply:159"
    /\ \E h \in Handlers : hpc[h] \in LockLabels

====
